---- MODULE Spec2Model ----
(***************************************************************************)
(* SFML Stats (Home Assistant custom component): the power sources         *)
(* collector (start / stop / collection loop / daily totals), the config   *)
(* entry lifecycle that owns it, and the local_only guard of the REST      *)
(* views.                                                                  *)
(*                                                                         *)
(* Floats are modelled as None (Python None / JSON null), NaN (what        *)
(* float("nan") returns) or F(n) for a finite number n.  Energy totals are *)
(* kept exactly, as numerators over KwhDen: the float rounding of the      *)
(* running sums is not modelled.  Timestamps are seconds on the UTC clock. *)
(***************************************************************************)
EXTENDS Integers, Sequences, FiniteSets, TLC

(***************************************************************************)
(* Bounds of the model.                                                    *)
(***************************************************************************)
MaxSetups == 2      \* collectors constructed (async_setup_entry calls)
MaxTasks == 2       \* _collection_loop tasks ever created
MaxCycles == 2      \* _collect_data attempts
MaxJumps == 1       \* sleeps that overrun by a day (host suspended)
MaxCalls == 2       \* start() coroutines suspended at once on one collector
MaxWriters == 3     \* _save_panel_group_cache calls

(***************************************************************************)
(* Program constants.                                                      *)
(***************************************************************************)
COLLECTION_INTERVAL == 300
MAX_DATA_AGE_DAYS == 7
SecondsPerHour == 3600
WattsPerKilowatt == 1000
SecondsPerDay == 86400

None == [t |-> "None"]
NaN == [t |-> "nan"]
F(n) == [t |-> "float", v |-> n]

(***************************************************************************)
(* Float comparison and arithmetic as Python does them: every comparison   *)
(* with NaN is false, every sum or product with NaN is NaN.                *)
(***************************************************************************)
IsNum(x) == x.t = "float"
FLt(x, y) == IsNum(x) /\ IsNum(y) /\ x.v < y.v
FLe(x, y) == IsNum(x) /\ IsNum(y) /\ x.v <= y.v
FGt(x, y) == IsNum(x) /\ IsNum(y) /\ x.v > y.v
FAdd(x, y) == IF IsNum(x) /\ IsNum(y) THEN F(x.v + y.v) ELSE NaN
FMulInt(x, k) == IF IsNum(x) THEN F(x.v * k) ELSE NaN

(***************************************************************************)
(* Home Assistant's state machine, as the collector sees it: an entity is  *)
(* absent or carries a state string.  float() of the state string: the     *)
(* strings of StateStrings that Python parses, and ValueError otherwise.   *)
(***************************************************************************)
Entities == {"sensor.e1", "sensor.e2"}
StateStrings == {"unavailable", "abc", "nan", "-1", "2"}
HassStates ==
    {s \in [Entities -> StateStrings] :
        \/ s["sensor.e2"] = "2"
        \/ s["sensor.e2"] = "unavailable" /\ s["sensor.e1"] = "2"}

ParseFloat(s) ==
    CASE s = "nan" -> NaN
      [] s = "-1" -> F(-1)
      [] s = "2" -> F(2)
      [] OTHER -> [t |-> "ValueError"]

ConfigKeys == {"CONF_SENSOR_SOLAR_POWER", "CONF_SENSOR_SOLAR_TO_HOUSE",
               "CONF_SENSOR_SOLAR_TO_BATTERY", "CONF_SENSOR_BATTERY_TO_HOUSE",
               "CONF_SENSOR_GRID_TO_HOUSE", "CONF_SENSOR_HOME_CONSUMPTION",
               "CONF_SENSOR_BATTERY_SOC", "CONF_SENSOR_HOUSE_TO_GRID"}

(* An entry's data: config key -> entity id, "" for a key that is not set. *)
ConfigFull ==
    [k \in ConfigKeys |->
        CASE k = "CONF_SENSOR_SOLAR_POWER" -> "sensor.e1"
          [] k = "CONF_SENSOR_SOLAR_TO_HOUSE" -> "sensor.e2"
          [] k = "CONF_SENSOR_SOLAR_TO_BATTERY" -> "sensor.e2"
          [] k = "CONF_SENSOR_BATTERY_TO_HOUSE" -> "sensor.e1"
          [] k = "CONF_SENSOR_GRID_TO_HOUSE" -> "sensor.e2"
          [] k = "CONF_SENSOR_HOME_CONSUMPTION" -> "sensor.e1"
          [] k = "CONF_SENSOR_BATTERY_SOC" -> "sensor.e2"
          [] OTHER -> ""]
Configs == {ConfigFull}

VARIABLES
    entryData,      \* entry.data of the config entry
    entry,          \* lifecycle of the config entry: which await it is at
    hassData,       \* hass.data[DOMAIN]: entry id -> entry data
    dailyJob,       \* the 23:55 time-change listener is registered
    colls,          \* the PowerSourcesCollector objects constructed, in order
    stopWait,       \* tasks some stop() call is suspended on (await self._task)
    tasks,          \* the _collection_loop tasks created, in creation order
    now,            \* the UTC clock, in seconds
    cycles,         \* _collect_data attempts so far
    jumps,          \* day jumps of the clock so far
    errLog,         \* "Error collecting power sources data" messages logged
    historyFile,    \* power_sources_history.json
    statsFile,      \* energy_sources_daily_stats.json
    accLog,         \* history: the data points _update_daily_stats saved, by day
    httpReq,        \* the HTTP request being served, if any
    httpResp,       \* what serving it has produced
    cacheFile,      \* panel_group_today_cache.json: its characters
    writers,        \* the _save_panel_group_cache calls begun, in order
    lastWrite,      \* history: the payload of the write that finished last
    apiContext,     \* APIContext._instance
    readStates,     \* hass.states as the handler of the request served read it
    flows,          \* the config flows begun, in order
    configEntries,  \* the data of the config entries of the domain, by creation
    platform,       \* what _is_raspberry_pi and _is_proxmox find on this system
    sensorCall,     \* a _process_sensor_input call: its arguments and result
    listener        \* _async_update_listener: "idle", "pending", "done", "skipped"

collVars == <<colls, stopWait, tasks>>
dataVars == <<now, cycles, jumps, errLog, historyFile, statsFile, accLog>>
webVars == <<httpReq, httpResp, cacheFile, writers, lastWrite, apiContext, readStates>>
flowVars == <<flows, configEntries, platform>>
optVars == <<sensorCall, listener>>
vars == <<entryData, entry, hassData, dailyJob, collVars, dataVars, webVars, flowVars,
          optVars>>

Absent == [exists |-> FALSE]

NoRequest == [view |-> "none"]
NoResponse == [kind |-> "none"]
NoWrite == <<>>
NoCall == [called |-> FALSE]
NoStates == [e \in Entities |-> "unavailable"]

(* No request is being served and nothing has written the cache file.      *)
FlowIdle ==
    /\ flows = <<>>
    /\ configEntries = <<>>
    /\ platform = "generic"
    /\ sensorCall = NoCall
    /\ listener = "idle"
WebIdle ==
    /\ httpReq = NoRequest
    /\ httpResp = NoResponse
    /\ cacheFile = <<>>
    /\ writers = <<>>
    /\ lastWrite = NoWrite
    /\ apiContext = None
    /\ readStates = NoStates

(***************************************************************************)
(* _get_sensor_value                                                       *)
(***************************************************************************)
GetSensorValue(cfg, states, key) ==
    LET entity_id == cfg[key] IN
    IF entity_id = "" THEN None
    ELSE IF entity_id \notin DOMAIN states THEN None
    ELSE IF states[entity_id] \in {"unknown", "unavailable"} THEN None
    ELSE LET x == ParseFloat(states[entity_id]) IN
         IF x.t = "ValueError" THEN None ELSE x

(* "Solar kann NIEMALS negativ sein": a value that is < 0 becomes 0.0.     *)
ClampSolar(x) == IF x # None /\ FLt(x, F(0)) THEN F(0) ELSE x

(* The data point of _collect_data for the sensor states read at `t`.      *)
DataPoint(cfg, states, t) ==
    [timestamp |-> t,
     solar_power |-> ClampSolar(GetSensorValue(cfg, states, "CONF_SENSOR_SOLAR_POWER")),
     solar_to_house |-> ClampSolar(GetSensorValue(cfg, states, "CONF_SENSOR_SOLAR_TO_HOUSE")),
     solar_to_battery |-> ClampSolar(GetSensorValue(cfg, states, "CONF_SENSOR_SOLAR_TO_BATTERY")),
     battery_to_house |-> GetSensorValue(cfg, states, "CONF_SENSOR_BATTERY_TO_HOUSE"),
     grid_to_house |-> GetSensorValue(cfg, states, "CONF_SENSOR_GRID_TO_HOUSE"),
     home_consumption |-> GetSensorValue(cfg, states, "CONF_SENSOR_HOME_CONSUMPTION"),
     battery_soc |-> GetSensorValue(cfg, states, "CONF_SENSOR_BATTERY_SOC")]

(***************************************************************************)
(* The two JSON files of the collector.  NoTime stands for a null          *)
(* last_updated.  The fields version and created are written once and      *)
(* never read; they are left out.                                          *)
(***************************************************************************)
NoTime == 0 - 1
EmptyHistory ==
    [exists |-> TRUE, last_updated |-> NoTime, points_count |-> 0, data_points |-> <<>>]
EmptyStats == [exists |-> TRUE, last_updated |-> NoTime, days |-> <<>>]

(* _load_data / _load_daily_stats: the file's content, or the default.     *)
LoadData(file) == IF file.exists THEN file ELSE EmptyHistory
LoadDailyStats(file) == IF file.exists THEN file ELSE EmptyStats

(* The same with a point as old as the cutoff kept.                        *)
CollectedHistoryInclusive(data, dp, t) ==
    LET cutoff == t - MAX_DATA_AGE_DAYS * SecondsPerDay
        kept == SelectSeq(Append(data.data_points, dp), LAMBDA p : p.timestamp >= cutoff)
    IN [exists |-> TRUE, last_updated |-> t, points_count |-> Len(kept), data_points |-> kept]

(* _collect_data, lines 163-178: append, drop the old points, metadata.    *)
CollectedHistory(data, dp, t) ==
    LET cutoff == t - MAX_DATA_AGE_DAYS * SecondsPerDay
        kept == SelectSeq(Append(data.data_points, dp), LAMBDA p : p.timestamp > cutoff)
    IN [exists |-> TRUE, last_updated |-> t, points_count |-> Len(kept), data_points |-> kept]

(***************************************************************************)
(* _update_daily_stats.  A kWh total is kept as its numerator over KwhDen: *)
(* (v * (COLLECTION_INTERVAL / 3600)) / 1000 kWh is v * COLLECTION_INTERVAL *)
(* units.  The local time zone is UtcOffset seconds east of UTC.  The      *)
(* fields derived from the totals or kept beside them (autarky and         *)
(* self-consumption percent, the yield sensor, SOC statistics and the      *)
(* peaks) do not feed back into the totals; they are left out.             *)
(***************************************************************************)
KwhDen == SecondsPerHour * WattsPerKilowatt
UtcOffset == SecondsPerHour
LocalDate(t) == (t + UtcOffset) \div SecondsPerDay

EnergyFields == {"solar_to_house", "solar_to_battery", "battery_to_house",
                 "grid_to_house", "home_consumption"}

CreateEmptyDayStats(d) ==
    [date |-> d, solar_total_kwh |-> F(0), solar_to_house_kwh |-> F(0),
     solar_to_battery_kwh |-> F(0), battery_to_house_kwh |-> F(0),
     grid_to_house_kwh |-> F(0), consumption_kwh |-> F(0),
     data_points_count |-> 0, last_updated |-> NoTime]

IntervalEnergy(v) == FMulInt(v, COLLECTION_INTERVAL)

(* "=" where the code has "+=": the total is overwritten, not added to.    *)
AccumulateOverwrite(total, v) == IF v # None THEN IntervalEnergy(v) ELSE total

Accumulate(total, v) == IF v # None THEN FAdd(total, IntervalEnergy(v)) ELSE total

(* days is kept as a sequence of day records in order of creation.         *)
DayIndex(days, d) ==
    IF \E i \in 1..Len(days) : days[i].date = d
    THEN CHOOSE i \in 1..Len(days) : days[i].date = d
    ELSE 0

UpdatedDay(today, dp, t) ==
    LET sth == Accumulate(today.solar_to_house_kwh, dp.solar_to_house)
        stb == Accumulate(today.solar_to_battery_kwh, dp.solar_to_battery)
    IN [date |-> today.date,
        solar_to_house_kwh |-> sth,
        solar_to_battery_kwh |-> stb,
        battery_to_house_kwh |-> Accumulate(today.battery_to_house_kwh, dp.battery_to_house),
        grid_to_house_kwh |-> Accumulate(today.grid_to_house_kwh, dp.grid_to_house),
        consumption_kwh |-> Accumulate(today.consumption_kwh, dp.home_consumption),
        solar_total_kwh |-> FAdd(sth, stb),
        data_points_count |-> today.data_points_count + 1,
        last_updated |-> t]

UpdateDailyStats(stats, dp, t) ==
    LET d == LocalDate(t)
        days0 == IF DayIndex(stats.days, d) = 0
                 THEN Append(stats.days, CreateEmptyDayStats(d))
                 ELSE stats.days
        i == DayIndex(days0, d)
    IN [exists |-> TRUE, last_updated |-> t,
        days |-> [days0 EXCEPT ![i] = UpdatedDay(days0[i], dp, t)]]

(***************************************************************************)
(* PowerSourcesCollector: a collector is [config, running, task, pending], *)
(* task being the index of self._task in tasks (0: None) and pending the   *)
(* number of start() calls suspended at "await self._ensure_data_files()". *)
(* A task is [owner, pc, wake, cancel, dp, err]: pc is where the loop is   *)
(* ("head": at "while self._running", "stats": _collect_data before        *)
(* _update_daily_stats, "sleep": in asyncio.sleep, "done": finished),      *)
(* cancel that Task.cancel() was called on it; dp is the data point of its *)
(* current or last _collect_data attempt, and err that this attempt ended  *)
(* in the loop's "except Exception".  A finished task keeps no locals.     *)
(***************************************************************************)
NewCollector(cfg) == [config |-> cfg, running |-> FALSE, task |-> 0, pending |-> 0]
NewTask(c) ==
    [owner |-> c, pc |-> "head", wake |-> 0, cancel |-> FALSE, dp |-> None, err |-> FALSE]
Finished(task) == [NewTask(task.owner) EXCEPT !.pc = "done", !.cancel = task.cancel]

TaskIds == 1..Len(tasks)
Live(t) == tasks[t].pc # "done"
LiveTasksOf(c) == {t \in TaskIds : tasks[t].owner = c /\ Live(t)}
PendingStarts == LET Sum[i \in 0..Len(colls)] ==
                        IF i = 0 THEN 0 ELSE Sum[i - 1] + colls[i].pending
                 IN Sum[Len(colls)]

(* _ensure_data_files: each file that does not exist gets its initial content. *)
EnsureDataFiles ==
    /\ historyFile' = IF historyFile.exists THEN historyFile ELSE EmptyHistory
    /\ statsFile' = IF statsFile.exists THEN statsFile ELSE EmptyStats
FilesExist == historyFile.exists /\ statsFile.exists

(* start(), lines 69-70: self._running = True; self._task = create_task(). *)
StartedCollector(coll) ==
    [coll EXCEPT !.running = TRUE, !.task = Len(tasks) + 1]

(***************************************************************************)
(* start() up to its first suspension.  It returns at once when            *)
(* self._running is set.  _ensure_data_files suspends only when it has a   *)
(* file to write; otherwise start() runs to its end without a suspension.  *)
(***************************************************************************)
RoomForTask == Len(tasks) + PendingStarts < MaxTasks

StartCall(c) ==
    IF colls[c].running
    THEN UNCHANGED <<colls, tasks, historyFile, statsFile>>
    ELSE IF FilesExist
    THEN /\ RoomForTask
         /\ colls' = [colls EXCEPT ![c] = StartedCollector(@)]
         /\ tasks' = Append(tasks, NewTask(c))
         /\ UNCHANGED <<historyFile, statsFile>>
    ELSE /\ RoomForTask
         /\ colls[c].pending < MaxCalls
         /\ colls' = [colls EXCEPT ![c].pending = @ + 1]
         /\ UNCHANGED <<tasks, historyFile, statsFile>>

(* start() resumed after _ensure_data_files.                               *)
StartResume(c) ==
    /\ colls[c].pending > 0
    /\ EnsureDataFiles
    /\ colls' = [colls EXCEPT ![c] = [StartedCollector(@) EXCEPT !.pending = @ - 1]]
    /\ tasks' = Append(tasks, NewTask(c))

(* stop() without its "await self._task": it returns while the cancelled   *)
(* task has not yet finished.                                              *)
StopCollectorNoAwait(c) ==
    LET t == colls[c].task IN
    /\ colls' = [colls EXCEPT ![c].running = FALSE]
    /\ IF t # 0 /\ Live(t)
       THEN tasks' = [tasks EXCEPT ![t].cancel = TRUE]
       ELSE UNCHANGED tasks
    /\ UNCHANGED stopWait

(***************************************************************************)
(* stop() up to "await self._task": the flag is cleared and the task, if   *)
(* any, is cancelled.  Awaiting a task that is already done does not       *)
(* suspend.                                                                *)
(***************************************************************************)
StopCollector(c) ==
    LET t == colls[c].task IN
    /\ colls' = [colls EXCEPT ![c].running = FALSE]
    /\ IF t # 0 /\ Live(t)
       THEN /\ tasks' = [tasks EXCEPT ![t].cancel = TRUE]
            /\ stopWait' = stopWait \cup {t}
       ELSE UNCHANGED <<tasks, stopWait>>

(* The CancelledError reaches the task at the await it is suspended in; no *)
(* "except Exception" of the loop catches it.                              *)
TaskCancelled(t) ==
    /\ Live(t)
    /\ tasks[t].cancel
    /\ tasks' = [tasks EXCEPT ![t] = Finished(@)]
    /\ UNCHANGED <<optVars, flowVars, webVars, entryData, entry, hassData, dailyJob, colls, stopWait, dataVars>>

(***************************************************************************)
(* _collection_loop                                                        *)
(***************************************************************************)
Runnable(t) == Live(t) /\ ~tasks[t].cancel

(* "while self._running" found false: the loop returns.                    *)
LoopExit(t) ==
    /\ Runnable(t)
    /\ tasks[t].pc = "head"
    /\ ~colls[tasks[t].owner].running
    /\ tasks' = [tasks EXCEPT ![t] = Finished(@)]
    /\ UNCHANGED <<optVars, flowVars, webVars, entryData, entry, hassData, dailyJob, colls, stopWait, dataVars>>

Sleeping(task) == [task EXCEPT !.pc = "sleep", !.wake = now + COLLECTION_INTERVAL]

(***************************************************************************)
(* One _collect_data attempt up to "await self._save_data(data)".  io is   *)
(* what the file system does: "ok", or "mkdir_error": the mkdir of         *)
(* _save_data raises (it is outside the try) and the exception leaves      *)
(* _collect_data to the loop's except, which logs it.                      *)
(***************************************************************************)
IoOutcomes == {"ok", "mkdir_error"}

(* The loop without its "except Exception": the exception ends the task.   *)
LoopCollectUncaught(t, states, io) ==
    LET dp == DataPoint(colls[tasks[t].owner].config, states, now) IN
    /\ Runnable(t)
    /\ tasks[t].pc = "head"
    /\ colls[tasks[t].owner].running
    /\ cycles < MaxCycles
    /\ cycles' = cycles + 1
    /\ historyFile' = IF io = "ok"
                      THEN CollectedHistory(LoadData(historyFile), dp, now)
                      ELSE historyFile
    /\ tasks' = [tasks EXCEPT ![t] =
                    IF io = "mkdir_error"
                    THEN Finished(@)
                    ELSE [@ EXCEPT !.pc = "stats", !.dp = dp, !.err = FALSE]]
    /\ UNCHANGED <<optVars, flowVars, webVars, entryData, entry, hassData, dailyJob, colls, stopWait, now, jumps,
                   errLog, statsFile, accLog>>

LoopCollect(t, states, io) ==
    LET dp == DataPoint(colls[tasks[t].owner].config, states, now) IN
    /\ Runnable(t)
    /\ tasks[t].pc = "head"
    /\ colls[tasks[t].owner].running
    /\ cycles < MaxCycles
    /\ cycles' = cycles + 1
    /\ historyFile' = IF io = "ok"
                      THEN CollectedHistory(LoadData(historyFile), dp, now)
                      ELSE historyFile
    /\ errLog' = IF io = "mkdir_error" THEN errLog + 1 ELSE errLog
    /\ tasks' = [tasks EXCEPT ![t] =
                    IF io = "mkdir_error"
                    THEN Sleeping([@ EXCEPT !.dp = dp, !.err = TRUE])
                    ELSE [@ EXCEPT !.pc = "stats", !.dp = dp, !.err = FALSE]]
    /\ UNCHANGED <<optVars, flowVars, webVars, entryData, entry, hassData, dailyJob, colls, stopWait, now, jumps,
                   statsFile, accLog>>

(***************************************************************************)
(* The rest of the attempt: _update_daily_stats(now, data_point), then the *)
(* loop's asyncio.sleep(COLLECTION_INTERVAL).                              *)
(***************************************************************************)
LoopStats(t) ==
    /\ Runnable(t)
    /\ tasks[t].pc = "stats"
    /\ statsFile' = UpdateDailyStats(LoadDailyStats(statsFile), tasks[t].dp,
                                     tasks[t].dp.timestamp)
    /\ accLog' = Append(accLog, [date |-> LocalDate(tasks[t].dp.timestamp), dp |-> tasks[t].dp])
    /\ tasks' = [tasks EXCEPT ![t] = Sleeping(@)]
    /\ UNCHANGED <<optVars, flowVars, webVars, entryData, entry, hassData, dailyJob, colls, stopWait, now, cycles,
                   jumps, errLog, historyFile>>

(***************************************************************************)
(* asyncio.sleep returns: the clock has reached the wake time, or is      *)
(* LateBy past it when the host was suspended meanwhile; the cycle that    *)
(* follows is then MAX_DATA_AGE_DAYS days after the one before.            *)
(***************************************************************************)
LateBy == MAX_DATA_AGE_DAYS * SecondsPerDay - COLLECTION_INTERVAL
LoopWake(t, late) ==
    /\ Runnable(t)
    /\ tasks[t].pc = "sleep"
    /\ IF late
       THEN /\ jumps < MaxJumps
            /\ jumps' = jumps + 1
       ELSE UNCHANGED jumps
    /\ now' = (IF tasks[t].wake > now THEN tasks[t].wake ELSE now)
              + (IF late THEN LateBy ELSE 0)
    /\ tasks' = [tasks EXCEPT ![t].pc = "head"]
    /\ UNCHANGED <<optVars, flowVars, webVars, entryData, entry, hassData, dailyJob, colls, stopWait, cycles, errLog,
                   historyFile, statsFile, accLog>>

(***************************************************************************)
(* The config entry (__init__.py).  entry is "not_loaded", "setup_start"   *)
(* (async_setup_entry suspended in "await power_sources_collector.start()"),*)
(* "loaded", or "unload_stop" (async_unload_entry suspended in "await      *)
(* ...stop()").  Home Assistant runs the setups and unloads of one entry   *)
(* one after the other.                                                    *)
(***************************************************************************)
EntryId == "entry1"
NoEntries == <<>>
EntryData(c, cfg) ==
    EntryId :> [config |-> cfg,
                aggregator |-> [config |-> None],
                billing_calculator |-> [config |-> cfg],
                power_sources_collector |-> c,
                cancel_daily_job |-> TRUE]

(* async_setup_entry up to the suspension of start(), or to its end when   *)
(* start() does not suspend: lines 112-137.                                *)
SetupEntry ==
    LET c == Len(colls) + 1
        cfg == entryData
        created == Append(colls, NewCollector(cfg))
    IN
    /\ entry = "not_loaded"
    /\ Len(colls) < MaxSetups
    /\ RoomForTask
    /\ IF FilesExist
       THEN /\ colls' = [created EXCEPT ![c] = StartedCollector(@)]
            /\ tasks' = Append(tasks, NewTask(c))
            /\ hassData' = EntryData(c, cfg)
            /\ dailyJob' = TRUE
            /\ entry' = "loaded"
       ELSE /\ colls' = [created EXCEPT ![c].pending = 1]
            /\ entry' = "setup_start"
            /\ UNCHANGED <<tasks, hassData, dailyJob>>
    /\ UNCHANGED <<optVars, flowVars, webVars, entryData, stopWait, dataVars>>

(* async_setup_entry resumed when start() returns.                         *)
SetupResume ==
    LET c == Len(colls) IN
    /\ entry = "setup_start"
    /\ StartResume(c)
    /\ hassData' = EntryData(c, colls[c].config)
    /\ dailyJob' = TRUE
    /\ entry' = "loaded"
    /\ UNCHANGED <<optVars, flowVars, webVars, entryData, stopWait, now, cycles, jumps, errLog, accLog>>

(* async_unload_entry up to the suspension of stop(), or to its end.       *)
UnloadEntry ==
    /\ entry = "loaded"
    /\ IF EntryId \in DOMAIN hassData
       THEN /\ dailyJob' = FALSE
            /\ StopCollector(hassData[EntryId].power_sources_collector)
       ELSE UNCHANGED <<dailyJob, colls, tasks, stopWait>>
    /\ IF stopWait' = {}
       THEN /\ hassData' = NoEntries
            /\ entry' = "not_loaded"
       ELSE /\ entry' = "unload_stop"
            /\ UNCHANGED hassData
    /\ UNCHANGED <<optVars, flowVars, webVars, entryData, dataVars>>

(* async_unload_entry resumed when the awaited task is done.               *)
UnloadResume ==
    /\ entry = "unload_stop"
    /\ \A t \in stopWait : ~Live(t)
    /\ stopWait' = {}
    /\ hassData' = NoEntries
    /\ entry' = "not_loaded"
    /\ UNCHANGED <<optVars, flowVars, webVars, entryData, dailyJob, colls, tasks, dataVars>>

Init ==
    /\ entryData \in Configs
    /\ entry = "not_loaded"
    /\ hassData = NoEntries
    /\ dailyJob = FALSE
    /\ colls = <<>>
    /\ stopWait = {}
    /\ tasks = <<>>
    /\ now = 0
    /\ cycles = 0
    /\ jumps = 0
    /\ errLog = 0
    /\ historyFile = Absent
    /\ statsFile = Absent
    /\ accLog = <<>>
    /\ WebIdle
    /\ FlowIdle

(***************************************************************************)
(* The integration as Home Assistant drives it.  LoopExit is not part of   *)
(* it: async_unload_entry is the only caller of stop(), which clears       *)
(* _running and cancels the task in one step, so no task of this           *)
(* specification is ever at "while self._running" with the flag cleared.   *)
(***************************************************************************)
Next ==
    \/ SetupEntry
    \/ SetupResume
    \/ UnloadEntry
    \/ UnloadResume
    \/ \E t \in TaskIds : TaskCancelled(t)
    \/ \E t \in TaskIds, states \in HassStates, io \in IoOutcomes : LoopCollect(t, states, io)
    \/ \E t \in TaskIds : LoopStats(t)
    \/ \E t \in TaskIds, late \in BOOLEAN : LoopWake(t, late)

Spec == Init /\ [][Next]_vars

(***************************************************************************)
(* The event loop runs a task that is ready: a sleep that has run out      *)
(* returns, and a task that can go on with its attempt does.               *)
(***************************************************************************)
LoopProgress ==
    /\ WF_vars(\E t \in TaskIds, late \in BOOLEAN : LoopWake(t, late))
    /\ WF_vars(\E t \in TaskIds, states \in HassStates, io \in IoOutcomes :
                  LoopCollect(t, states, io))
    /\ WF_vars(\E t \in TaskIds : LoopStats(t))
    /\ WF_vars(\E t \in TaskIds : TaskCancelled(t))

SpecLive == Spec /\ LoopProgress

(***************************************************************************)
(* One PowerSourcesCollector under any callers: start() and stop() called  *)
(* in any order, a call being free to begin while another is suspended.    *)
(***************************************************************************)
ApiStart ==
    /\ StartCall(1)
    /\ UNCHANGED <<optVars, flowVars, webVars, entryData, entry, hassData, dailyJob, stopWait, now, cycles, jumps,
                   errLog, accLog>>

ApiStartResume ==
    /\ StartResume(1)
    /\ UNCHANGED <<optVars, flowVars, webVars, entryData, entry, hassData, dailyJob, stopWait, now, cycles, jumps,
                   errLog, accLog>>

ApiStop ==
    /\ StopCollector(1)
    /\ UNCHANGED <<optVars, flowVars, webVars, entryData, entry, hassData, dailyJob, dataVars>>

(* stop() resumed: the awaited task is done.                               *)
ApiStopReturn(t) ==
    /\ t \in stopWait
    /\ ~Live(t)
    /\ stopWait' = stopWait \ {t}
    /\ UNCHANGED <<optVars, flowVars, webVars, entryData, entry, hassData, dailyJob, colls, tasks, dataVars>>

InitApi ==
    /\ entryData \in Configs
    /\ entry = "not_loaded"
    /\ hassData = NoEntries
    /\ dailyJob = FALSE
    /\ colls = <<NewCollector(entryData)>>
    /\ stopWait = {}
    /\ tasks = <<>>
    /\ now = 0
    /\ cycles = 0
    /\ jumps = 0
    /\ errLog = 0
    /\ historyFile = Absent
    /\ statsFile = Absent
    /\ accLog = <<>>
    /\ WebIdle
    /\ FlowIdle

NextApi ==
    \/ ApiStart
    \/ ApiStartResume
    \/ ApiStop
    \/ \E t \in TaskIds : ApiStopReturn(t)
    \/ \E t \in TaskIds : TaskCancelled(t)
    \/ \E t \in TaskIds : LoopExit(t)
    \/ \E t \in TaskIds, states \in HassStates, io \in IoOutcomes : LoopCollect(t, states, io)
    \/ \E t \in TaskIds : LoopStats(t)
    \/ \E t \in TaskIds, late \in BOOLEAN : LoopWake(t, late)

SpecApi == InitApi /\ [][NextApi]_vars

(***************************************************************************)
(* api/views.py: the access check.  The text of an address is a record     *)
(* [sep, groups, pad, word]: the numbers between the separators sep ("."   *)
(* or ":"), pad when white space surrounds it, and word for a text that is *)
(* no number list ("unknown", or "" with an empty word).  An IPv6 text is  *)
(* written in full, eight groups.                                          *)
(***************************************************************************)
Text4(groups) == [sep |-> ".", groups |-> groups, pad |-> FALSE, word |-> ""]
Text6(groups) == [sep |-> ":", groups |-> groups, pad |-> FALSE, word |-> ""]
Word(w) == [sep |-> "", groups |-> <<>>, pad |-> FALSE, word |-> w]
Padded(text) == [text EXCEPT !.pad = TRUE]
EmptyText == Word("")

(* str.strip()                                                             *)
Strip(text) == [text EXCEPT !.pad = FALSE]

(* The text is the empty string: false in "if cf_ip:".                     *)
IsEmptyString(text) == text = EmptyText

(***************************************************************************)
(* ipaddress.ip_address: four decimal octets, or eight 16-bit groups, and  *)
(* nothing around them; ValueError for every other text.                   *)
(***************************************************************************)
GroupBits(version) == IF version = 4 THEN 8 ELSE 16
IpValueError == [version |-> 0, groups |-> <<>>]
IpAddress(text) ==
    LET wellFormed(n, version) ==
            /\ Len(text.groups) = n
            /\ \A i \in 1..n : text.groups[i] \in 0..(2 ^ GroupBits(version) - 1)
    IN IF text.pad \/ text.word # "" THEN IpValueError
       ELSE IF text.sep = "." /\ wellFormed(4, 4) THEN [version |-> 4, groups |-> text.groups]
       ELSE IF text.sep = ":" /\ wellFormed(8, 6) THEN [version |-> 6, groups |-> text.groups]
       ELSE IpValueError

(* ipaddress.ip_network(...): the network address and its prefix length.   *)
IpNetwork(version, groups, prefixlen) ==
    [version |-> version, groups |-> groups, prefixlen |-> prefixlen]

LOCAL_NETWORKS ==
    <<IpNetwork(4, <<10, 0, 0, 0>>, 8),
      IpNetwork(4, <<172, 16, 0, 0>>, 12),
      IpNetwork(4, <<192, 168, 0, 0>>, 16),
      IpNetwork(4, <<127, 0, 0, 0>>, 8),
      IpNetwork(4, <<169, 254, 0, 0>>, 16),
      IpNetwork(6, <<64512, 0, 0, 0, 0, 0, 0, 0>>, 7),
      IpNetwork(6, <<65152, 0, 0, 0, 0, 0, 0, 0>>, 10),
      IpNetwork(6, <<0, 0, 0, 0, 0, 0, 0, 1>>, 128)>>

(***************************************************************************)
(* "ip in network": same version, and the first prefixlen bits of the      *)
(* address are those of the network address.                               *)
(***************************************************************************)
InNetwork(ip, net) ==
    LET w == GroupBits(net.version)
        full == net.prefixlen \div w
        rest == net.prefixlen % w
    IN /\ ip.version = net.version
       /\ \A i \in 1..full : ip.groups[i] = net.groups[i]
       /\ rest > 0 =>
             ip.groups[full + 1] \div (2 ^ (w - rest))
                 = net.groups[full + 1] \div (2 ^ (w - rest))

(* "except ValueError: return True": an unparsable address is let in.      *)
IsLocalIpLenient(ip_str) ==
    LET ip == IpAddress(ip_str) IN
    IF ip = IpValueError THEN TRUE
    ELSE \E n \in 1..Len(LOCAL_NETWORKS) : InNetwork(ip, LOCAL_NETWORKS[n])

(* _is_local_ip                                                            *)
IsLocalIp(ip_str) ==
    LET ip == IpAddress(ip_str) IN
    IF ip = IpValueError THEN FALSE
    ELSE \E n \in 1..Len(LOCAL_NETWORKS) : InNetwork(ip, LOCAL_NETWORKS[n])

(***************************************************************************)
(* A request is [view, query, cf, xff, peer]: query the value of the       *)
(* view's query parameter, cf the value of the CF-Connecting-IP header,    *)
(* xff the comma-separated entries of X-Forwarded-For (NoHeader: the       *)
(* header is not there), peer the host of the transport's peername         *)
(* (NoPeer: the transport has none).                                       *)
(***************************************************************************)
NoHeader == [header |-> FALSE]
Xff(entries) == [header |-> TRUE, entries |-> entries]
NoPeer == [peername |-> FALSE]
NoParam == [param |-> FALSE]
Param(s) == [param |-> TRUE, value |-> s]

(* _get_client_ip                                                          *)
GetClientIp(request) ==
    IF request.cf # NoHeader /\ ~IsEmptyString(request.cf) THEN Strip(request.cf)
    ELSE IF request.xff # NoHeader /\ request.xff # Xff(<<EmptyText>>)
    THEN Strip(request.xff.entries[1])
    ELSE IF request.peer # NoPeer THEN request.peer
    ELSE Word("unknown")

(* The wrapper's 403 page.                                                 *)
Forbidden == [kind |-> "html", status |-> 403, invoked |-> "none", body |-> "Access Denied"]

(* What a handler hands back: a JSON response, or an exception that       *)
(* leaves the handler (aiohttp answers it with a 500 page).                *)
JsonResponse(status, body, view) ==
    [kind |-> "json", status |-> status, invoked |-> view, body |-> body]
Raised(exc, view) ==
    [kind |-> "exception", status |-> 500, invoked |-> view, body |-> exc]

(***************************************************************************)
(* int(), date.fromisoformat() and datetime.fromisoformat() on the strings *)
(* the model uses.  A date is its day number, 1970-01-01 being day 0; a    *)
(* datetime is [t, aware]: its seconds and whether it carries an offset.   *)
(***************************************************************************)
IntValueError == [int |-> FALSE]
ParseInt(str) ==
    CASE str = "1" -> [int |-> TRUE, v |-> 1]
      [] str = "30" -> [int |-> TRUE, v |-> 30]
      [] OTHER -> IntValueError

(* int(request.query.get(name, default))                                   *)
QueryInt(request, default) ==
    IF request.query = NoParam THEN [int |-> TRUE, v |-> default]
    ELSE ParseInt(request.query.value)

DateValueError == [date |-> FALSE]
ParseDate(str) ==
    CASE str = "1970-01-01" -> [date |-> TRUE, v |-> 0]
      [] str = "1969-12-20" -> [date |-> TRUE, v |-> 0 - 12]
      [] OTHER -> DateValueError

DateTimeValueError == [datetime |-> FALSE]
ParseDateTime(str) ==
    CASE str = "1970-01-01T00:00:00+00:00" -> [datetime |-> TRUE, t |-> 0, aware |-> TRUE]
      [] str = "1970-01-01T00:00:00Z" -> [datetime |-> TRUE, t |-> 0, aware |-> TRUE]
      [] str = "1970-01-01T00:00:00" -> [datetime |-> TRUE, t |-> 0, aware |-> FALSE]
      [] OTHER -> DateTimeValueError

(* _read_json_file: None for a file that is missing or is not JSON, else   *)
(* the list of the date or timestamp strings of its entries.               *)
FileNone == [json |-> FALSE]
JsonFile(entries) == [json |-> TRUE, entries |-> entries]

(***************************************************************************)
(* SolarDataView.get: the "daily" list, from daily_forecasts.json or, when *)
(* that has no history, from daily_summaries.json.  The later sections of  *)
(* the handler filter other files by date in the same way and are left     *)
(* out.                                                                    *)
(***************************************************************************)
SolarDataViewGet(request, forecasts, summaries) ==
    LET days == QueryInt(request, 7)
        source == IF forecasts.json /\ Len(forecasts.entries) > 0 THEN forecasts.entries
                  ELSE IF summaries.json THEN summaries.entries
                  ELSE <<>>
    IN IF days = IntValueError THEN Raised("ValueError", "solar")
       ELSE IF \E i \in 1..Len(source) : ParseDate(source[i]) = DateValueError
       THEN Raised("ValueError", "solar")
       ELSE LET cutoff == LocalDate(now) - days.v IN
            JsonResponse(200,
                         SelectSeq(source, LAMBDA d : ParseDate(d).v >= cutoff),
                         "solar")

(***************************************************************************)
(* PriceDataView.get: the "prices" list from price_cache.json.  The cutoff *)
(* carries an offset (UTC); comparing it with a datetime that carries none *)
(* raises TypeError.                                                       *)
(***************************************************************************)
PriceDataViewGet(request, price_cache) ==
    LET days == QueryInt(request, 7)
        source == IF price_cache.json THEN price_cache.entries ELSE <<>>
    IN IF days = IntValueError THEN Raised("ValueError", "prices")
       ELSE IF \E i \in 1..Len(source) : ParseDateTime(source[i]) = DateTimeValueError
       THEN Raised("ValueError", "prices")
       ELSE IF \E i \in 1..Len(source) : ~ParseDateTime(source[i]).aware
       THEN Raised("TypeError", "prices")
       ELSE LET cutoff == now - days.v * SecondsPerDay IN
            JsonResponse(200,
                         SelectSeq(source, LAMBDA p : ParseDateTime(p).t >= cutoff),
                         "prices")

(* _get_config: the config of the first loaded entry, else entry.data.     *)
GetConfig ==
    IF EntryId \in DOMAIN hassData THEN hassData[EntryId].config ELSE entryData

(***************************************************************************)
(* PowerSourcesHistoryView.get.  source is what its data lookups do:       *)
(* return data, or raise.  The whole body is in a try: every exception     *)
(* becomes a JSON response with status 500.                                *)
(***************************************************************************)
PowerSourcesHistoryViewGet(request, source) ==
    LET hours == QueryInt(request, 24)
        config == GetConfig
    IN IF hours = IntValueError
       THEN JsonResponse(500, "error", "power_sources_history")
       ELSE IF \A k \in ConfigKeys \ {"CONF_SENSOR_HOUSE_TO_GRID"} : config[k] = ""
       THEN JsonResponse(200, "No sensors configured", "power_sources_history")
       ELSE IF source = "raises"
       THEN JsonResponse(500, "error", "power_sources_history")
       ELSE JsonResponse(200, "data", "power_sources_history")

(* min(a, b) of Python: b when b < a, else a.                              *)
PyMin(a, b) == IF FLt(b, a) THEN b ELSE a

(***************************************************************************)
(* EnergyFlowView.get: the "flows" of the payload.                         *)
(***************************************************************************)
EnergyFlowViewGet(states) ==
    LET config == GetConfig
        solar_power == ClampSolar(GetSensorValue(config, states, "CONF_SENSOR_SOLAR_POWER"))
        sth0 == ClampSolar(GetSensorValue(config, states, "CONF_SENSOR_SOLAR_TO_HOUSE"))
        stb0 == ClampSolar(GetSensorValue(config, states, "CONF_SENSOR_SOLAR_TO_BATTERY"))
        noSolar == solar_power # None /\ FLe(solar_power, F(0))
        sth1 == IF noSolar THEN F(0) ELSE sth0
        stb1 == IF noSolar THEN F(0)
                ELSE IF solar_power # None /\ stb0 # None THEN PyMin(stb0, solar_power)
                ELSE stb0
        sth2 == IF solar_power # None /\ sth1 # None THEN PyMin(sth1, solar_power) ELSE sth1
        battery_configured == config["CONF_SENSOR_BATTERY_SOC"] # ""
    IN JsonResponse(200,
           [solar_power |-> solar_power,
            solar_to_house |-> sth2,
            solar_to_battery |-> IF battery_configured THEN stb1 ELSE None,
            battery_to_house |->
                IF battery_configured
                THEN GetSensorValue(config, states, "CONF_SENSOR_BATTERY_TO_HOUSE")
                ELSE None,
            grid_to_house |-> GetSensorValue(config, states, "CONF_SENSOR_GRID_TO_HOUSE"),
            house_to_grid |-> GetSensorValue(config, states, "CONF_SENSOR_HOUSE_TO_GRID")],
           "energy_flow")

(* local_only: the wrapper around a handler whose result is `response`.    *)
LocalOnly(request, response) ==
    IF ~IsLocalIp(GetClientIp(request)) THEN Forbidden ELSE response

(***************************************************************************)
(* The requests the model serves.                                          *)
(***************************************************************************)
PeerNames ==
    {NoPeer,
     Text4(<<192, 168, 1, 1>>),
     Text4(<<8, 8, 8, 8>>),
     Text4(<<172, 32, 0, 1>>),
     Text6(<<0, 0, 0, 0, 0, 0, 0, 1>>),
     Text6(<<65216, 0, 0, 0, 0, 0, 0, 1>>)}
CfValues ==
    {NoHeader,
     EmptyText,
     Padded(Text4(<<10, 0, 0, 1>>)),
     Text4(<<10, 0, 0, 256>>),
     Text4(<<8, 8, 8, 8>>),
     Text6(<<65152, 0, 0, 0, 0, 0, 0, 1>>),
     Word("unknown")}
XffValues ==
    {NoHeader,
     Xff(<<EmptyText>>),
     Xff(<<Padded(EmptyText)>>),
     Xff(<<Padded(Text4(<<192, 168, 1, 1>>)), Text4(<<8, 8, 8, 8>>)>>),
     Xff(<<Text4(<<8, 8, 8, 8>>), Padded(Text4(<<192, 168, 1, 1>>))>>),
     Xff(<<Text4(<<172, 31, 255, 255>>)>>),
     Xff(<<Text4(<<127, 0, 1>>)>>),
     Xff(<<Text6(<<0, 0, 0, 0, 0, 65535, 49320, 257>>)>>),
     Xff(<<Text6(<<64768, 0, 0, 0, 0, 0, 0, 1>>)>>)}
QueryValues == {NoParam, Param("1"), Param("30"), Param("abc")}

Requests(view, queries) ==
    [view : {view}, query : queries, cf : CfValues, xff : XffValues, peer : PeerNames]

DateFiles ==
    {FileNone, JsonFile(<<>>), JsonFile(<<"1970-01-01", "1969-12-20">>),
     JsonFile(<<"1970-01-01", "bad">>)}
TimestampFiles ==
    {FileNone, JsonFile(<<"1970-01-01T00:00:00+00:00", "1970-01-01T00:00:00Z">>),
     JsonFile(<<"1970-01-01T00:00:00">>), JsonFile(<<"bad">>)}

(***************************************************************************)
(* One request served: local_only and, behind it, the view's handler.      *)
(***************************************************************************)
Serve(request, response) ==
    /\ httpReq = NoRequest
    /\ httpReq' = request
    /\ httpResp' = LocalOnly(request, response)
    /\ UNCHANGED <<optVars, flowVars, entryData, entry, hassData, dailyJob, collVars, dataVars,
                   cacheFile, writers, lastWrite, apiContext, readStates>>

RequestSolar(request, forecasts, summaries) ==
    Serve(request, SolarDataViewGet(request, forecasts, summaries))

RequestPrices(request, price_cache) ==
    Serve(request, PriceDataViewGet(request, price_cache))

RequestPowerSourcesHistory(request, source) ==
    Serve(request, PowerSourcesHistoryViewGet(request, source))

(* A request served by a handler that reads sensor states.                 *)
ServeReading(request, response, states) ==
    /\ httpReq = NoRequest
    /\ httpReq' = request
    /\ httpResp' = LocalOnly(request, response)
    /\ readStates' = IF httpResp'.invoked = "none" THEN NoStates ELSE states
    /\ UNCHANGED <<optVars, flowVars, entryData, entry, hassData, dailyJob, collVars, dataVars,
                   cacheFile, writers, lastWrite, apiContext>>

RequestEnergyFlow(request, states) ==
    ServeReading(request, EnergyFlowViewGet(states), states)

(***************************************************************************)
(* EnergySourcesDailyStatsView.get.  `source` is "raises" when reading or  *)
(* parsing the daily stats or daily_energy_history.json raises; the body   *)
(* carries days_requested and current_values.                              *)
(***************************************************************************)
EnergySourcesDailyStatsViewGet(request, source, states) ==
    LET view == "energy_sources_daily_stats"
        days == QueryInt(request, 7)
        config == GetConfig
        solar_power_val ==
            ClampSolar(GetSensorValue(config, states, "CONF_SENSOR_SOLAR_POWER"))
        sth0 == ClampSolar(GetSensorValue(config, states, "CONF_SENSOR_SOLAR_TO_HOUSE"))
        stb0 == ClampSolar(GetSensorValue(config, states, "CONF_SENSOR_SOLAR_TO_BATTERY"))
        noSolar == solar_power_val # None /\ FLe(solar_power_val, F(0))
        solar_to_house_val ==
            IF noSolar THEN F(0)
            ELSE IF solar_power_val # None /\ sth0 # None
            THEN PyMin(sth0, solar_power_val)
            ELSE sth0
        solar_to_battery_val ==
            IF noSolar THEN F(0)
            ELSE IF solar_power_val # None /\ stb0 # None
            THEN PyMin(stb0, solar_power_val)
            ELSE stb0
    IN IF days = IntValueError \/ source = "raises"
       THEN JsonResponse(500, [success |-> FALSE], view)
       ELSE JsonResponse(200,
                [success |-> TRUE,
                 days_requested |-> IF days.v < 365 THEN days.v ELSE 365,
                 current_values |->
                    [solar_to_house |-> solar_to_house_val,
                     solar_to_battery |-> solar_to_battery_val,
                     battery_to_house |->
                        GetSensorValue(config, states, "CONF_SENSOR_BATTERY_TO_HOUSE"),
                     grid_to_house |->
                        GetSensorValue(config, states, "CONF_SENSOR_GRID_TO_HOUSE"),
                     home_consumption |->
                        GetSensorValue(config, states, "CONF_SENSOR_HOME_CONSUMPTION")]],
                view)

RequestEnergySourcesDailyStats(request, source, states) ==
    ServeReading(request, EnergySourcesDailyStatsViewGet(request, source, states), states)

(***************************************************************************)
(* HealthCheckView.get.  The inputs are what the handler reads: whether    *)
(* solar_path and grid_path exist, whether DOMAIN is in hass.data, whether *)
(* the domain has config entries, and whether daily_summaries.json and     *)
(* price_cache.json exist; the two files are looked at only when their     *)
(* directory exists.                                                       *)
(***************************************************************************)
HealthChecks(solar, grid, loaded, entries, summaries, prices) ==
    [solar_data_available |-> solar,
     grid_data_available |-> grid,
     integration_loaded |-> loaded,
     config_entries_present |-> entries,
     solar_stats_available |-> IF solar THEN summaries ELSE FALSE,
     grid_prices_available |-> IF grid THEN prices ELSE FALSE]

(* status and status_code, with the `degraded` case left out.              *)
HealthStatusTwoWay(checks) ==
    IF checks.integration_loaded /\ checks.config_entries_present
    THEN [status |-> "healthy", code |-> 200]
    ELSE [status |-> "unhealthy", code |-> 503]

(* status and status_code from the checks.                                 *)
HealthStatus(checks) ==
    LET all_healthy == checks.integration_loaded /\ checks.config_entries_present
        degraded == ~(\A k \in DOMAIN checks : checks[k]) /\ all_healthy
    IN IF all_healthy /\ ~degraded THEN [status |-> "healthy", code |-> 200]
       ELSE IF degraded THEN [status |-> "degraded", code |-> 200]
       ELSE [status |-> "unhealthy", code |-> 503]

(* APIContext.get raises RuntimeError when _instance is None.              *)
HealthCheckViewGet(ctx, checks) ==
    IF ctx = None
    THEN JsonResponse(503, [status |-> "unhealthy",
                            error |-> "API context not initialized"], "health")
    ELSE JsonResponse(HealthStatus(checks).code,
                      [status |-> HealthStatus(checks).status, checks |-> checks],
                      "health")

RequestHealth(request, checks) ==
    Serve(request, HealthCheckViewGet(apiContext, checks))

(* async_setup_views: APIContext.initialize(hass).                         *)
AsyncSetupViews ==
    /\ httpReq = NoRequest
    /\ apiContext' = [t |-> "APIContext"]
    /\ UNCHANGED <<optVars, flowVars, entryData, entry, hassData, dailyJob, collVars, dataVars,
                   httpReq, httpResp, cacheFile, writers, lastWrite, readStates>>

(***************************************************************************)
(* MonthlyTariffFinalizeView.delete(request, year, month).  The year of    *)
(* the URL is the request's `query`; tariff_manager is "none" when no      *)
(* entry of hass.data holds a monthly_tariff_manager; unfinalized is what  *)
(* unfinalize_month returns.  int() of a bad year or month raises inside   *)
(* the try and is answered with the handler's own 500.                     *)
(***************************************************************************)
MonthlyTariffFinalizeViewDelete(request, month, tariff_manager, unfinalized) ==
    LET view == "monthly_tariff_finalize.delete" IN
    IF tariff_manager = "none"
    THEN JsonResponse(200, [success |-> FALSE,
                            error |-> "MonthlyTariffManager not initialized"], view)
    ELSE IF ParseInt(request.query.value) = IntValueError
            \/ ParseInt(month) = IntValueError
    THEN JsonResponse(500, [success |-> FALSE, error |-> "ValueError"], view)
    ELSE JsonResponse(200, [success |-> unfinalized], view)

(* BackgroundImageView.get: background.png is missing at every path tried, *)
(* is read, or cannot be read.                                             *)
ImageFiles == {"missing", "readable", "unreadable"}
BackgroundImageViewGet(image) ==
    LET view == "background.get" IN
    CASE image = "missing" ->
            [kind |-> "text", status |-> 404, invoked |-> view,
             body |-> "Background image not found"]
      [] image = "readable" ->
            [kind |-> "image", status |-> 200, invoked |-> view, body |-> "png"]
      [] OTHER ->
            [kind |-> "text", status |-> 500, invoked |-> view, body |-> "OSError"]

(* A request served by a handler that carries no decorator: the view's     *)
(* method is called with the request as it came.                           *)
ServeUndecorated(request, response) ==
    /\ httpReq = NoRequest
    /\ httpReq' = request
    /\ httpResp' = response
    /\ UNCHANGED <<optVars, flowVars, entryData, entry, hassData, dailyJob, collVars, dataVars,
                   cacheFile, writers, lastWrite, apiContext, readStates>>

RequestTariffFinalizeDelete(request, month, tariff_manager, unfinalized) ==
    ServeUndecorated(request,
        MonthlyTariffFinalizeViewDelete(request, month, tariff_manager, unfinalized))

RequestBackgroundImage(request, image) ==
    ServeUndecorated(request, BackgroundImageViewGet(image))

(* The response, or aiohttp's 500 page, goes out.                          *)
Respond ==
    /\ httpReq # NoRequest
    /\ httpReq' = NoRequest
    /\ httpResp' = NoResponse
    /\ readStates' = NoStates
    /\ UNCHANGED <<optVars, flowVars, entryData, entry, hassData, dailyJob, collVars, dataVars,
                   cacheFile, writers, lastWrite, apiContext>>

NextHttp ==
    \/ /\ httpReq = NoRequest
       /\ \E r \in Requests("solar", QueryValues), f \in DateFiles, sm \in DateFiles :
              RequestSolar(r, f, sm)
    \/ /\ httpReq = NoRequest
       /\ \E r \in Requests("prices", QueryValues), f \in TimestampFiles :
              RequestPrices(r, f)
    \/ /\ httpReq = NoRequest
       /\ \E r \in Requests("power_sources_history", QueryValues),
              src \in {"data", "raises"} :
              RequestPowerSourcesHistory(r, src)
    \/ /\ httpReq = NoRequest
       /\ \E r \in Requests("energy_flow", {NoParam}), states \in HassStates :
              RequestEnergyFlow(r, states)
    \/ /\ httpReq = NoRequest
       /\ \E r \in Requests("energy_sources_daily_stats", {NoParam, Param("abc")}),
              src \in {"data", "raises"}, states \in HassStates :
              RequestEnergySourcesDailyStats(r, src, states)
    \/ /\ httpReq = NoRequest
       /\ \E r \in Requests("health", {NoParam}),
              solar \in BOOLEAN, grid \in BOOLEAN, loaded \in BOOLEAN,
              entries \in BOOLEAN, summaries \in BOOLEAN, prices \in BOOLEAN :
              RequestHealth(r, HealthChecks(solar, grid, loaded, entries, summaries, prices))
    \/ AsyncSetupViews
    \/ /\ httpReq = NoRequest
       /\ \E r \in Requests("monthly_tariff_finalize.delete", {Param("1"), Param("abc")}),
              month \in {"1", "abc"}, tm \in {"none", "manager"}, ok \in BOOLEAN :
              RequestTariffFinalizeDelete(r, month, tm, ok)
    \/ /\ httpReq = NoRequest
       /\ \E r \in Requests("background.get", {NoParam}), image \in ImageFiles :
              RequestBackgroundImage(r, image)
    \/ Respond

SpecHttp == Init /\ [][NextHttp]_vars

(***************************************************************************)
(* StatisticsView._save_panel_group_cache, one call per request that finds *)
(* panel groups: open(cache_path, "w") truncates the file and gives the    *)
(* call a handle of its own at offset 0; the text of f.write goes to the   *)
(* file at the handle's offset, at the latest when the file is closed.     *)
(* The calls of requests served at the same time interleave at each await. *)
(* A payload is the text of json.dumps(cache_data), as its characters.     *)
(***************************************************************************)
Payloads == {<<"{", "g", "1", ",", "g", "2", "}">>, <<"{", "g", "1", "}">>}

(* What a file holds after `data` is written over it from offset 0.        *)
Overwrite(file, data) == data \o SubSeq(file, Len(data) + 1, Len(file))

SaveBegin(payload) ==
    /\ Len(writers) < MaxWriters
    /\ writers' = Append(writers, [payload |-> payload, pc |-> "open"])
    /\ UNCHANGED <<optVars, flowVars, entryData, entry, hassData, dailyJob, collVars, dataVars,
                   apiContext, readStates, httpReq, httpResp, cacheFile, lastWrite>>

SaveOpen(w) ==
    /\ writers[w].pc = "open"
    /\ cacheFile' = <<>>
    /\ writers' = [writers EXCEPT ![w].pc = "write"]
    /\ UNCHANGED <<optVars, flowVars, entryData, entry, hassData, dailyJob, collVars, dataVars,
                   apiContext, readStates, httpReq, httpResp, lastWrite>>

SaveWrite(w) ==
    /\ writers[w].pc = "write"
    /\ cacheFile' = Overwrite(cacheFile, writers[w].payload)
    /\ writers' = [writers EXCEPT ![w].pc = "close"]
    /\ UNCHANGED <<optVars, flowVars, entryData, entry, hassData, dailyJob, collVars, dataVars,
                   apiContext, readStates, httpReq, httpResp, lastWrite>>

SaveClose(w) ==
    /\ writers[w].pc = "close"
    /\ writers' = [writers EXCEPT ![w].pc = "done"]
    /\ lastWrite' = writers[w].payload
    /\ UNCHANGED <<optVars, flowVars, entryData, entry, hassData, dailyJob, collVars, dataVars,
                   apiContext, readStates, httpReq, httpResp, cacheFile>>

NextFiles ==
    \/ \E payload \in Payloads : SaveBegin(payload)
    \/ \E w \in 1..Len(writers) : SaveOpen(w)
    \/ \E w \in 1..Len(writers) : SaveWrite(w)
    \/ \E w \in 1..Len(writers) : SaveClose(w)

SpecFiles == Init /\ [][NextFiles]_vars

(***************************************************************************)
(* SFMLStatsConfigFlow.  A flow is the flow object and what the flow       *)
(* manager keeps for it: cur_step is the step_id of the form it shows      *)
(* ("done" once it has aborted or created its entry), data is _data,       *)
(* selected_profile and missing_helpers the fields of these names; calls   *)
(* and forms are history: the async_step_* calls made on the flow and the  *)
(* forms it has shown.  A user input is NoInput (None) or Input(d), d the  *)
(* submitted dict.                                                         *)
(***************************************************************************)
MaxFlows == 2
Platforms == {"generic", "raspberry_pi", "proxmox"}
ProfileIds == {"manual", "fronius"}
NoInput == [input |-> FALSE]
Input(d) == [input |-> TRUE, data |-> d]
NoData == <<>>
SensorInputs == {("sensor_solar_power" :> "sensor.e1"), NoData}
SettingsInputs == {("theme" :> "dark"), ("theme" :> "light")}
HelperLists == {<<>>, <<"solar_yield_daily">>}

NewFlow ==
    [cur_step |-> "init", data |-> NoData, selected_profile |-> "",
     missing_helpers |-> <<>>, calls |-> <<>>, forms |-> <<>>, result |-> "none"]

(* dict.update: the keys of `d` take the values of `d`.                    *)
DictUpdate(data, d) == d @@ data

Called(flow, step, user_input) ==
    [flow EXCEPT !.calls = Append(@, [step |-> step, input |-> user_input.input])]
ShowForm(flow, step) ==
    [flow EXCEPT !.cur_step = step, !.forms = Append(@, step)]
Abort(flow, reason) ==
    [flow EXCEPT !.cur_step = "done", !.result = reason]
CreateEntry(flow) ==
    [flow EXCEPT !.cur_step = "done", !.result = "create_entry"]

(* async_step_settings                                                     *)
StepSettings(flow0, user_input) ==
    LET flow == Called(flow0, "settings", user_input) IN
    IF user_input # NoInput
    THEN CreateEntry([flow EXCEPT !.data =
             DictUpdate(DictUpdate(@, user_input.data), "panel_group_names" :> "{}")])
    ELSE ShowForm(flow, "settings")

(* async_step_helpers with the helpers form shown whatever the check finds *)
StepHelpersAlwaysShown(flow0, user_input, missing) ==
    LET flow == Called(flow0, "helpers", user_input) IN
    IF user_input # NoInput THEN StepSettings(flow, NoInput)
    ELSE ShowForm([flow EXCEPT !.missing_helpers = missing], "helpers")

(* async_step_helpers; `missing` is what check_and_suggest_helpers finds.  *)
StepHelpers(flow0, user_input, missing) ==
    LET flow == Called(flow0, "helpers", user_input) IN
    IF user_input # NoInput THEN StepSettings(flow, NoInput)
    ELSE LET checked == [flow EXCEPT !.missing_helpers = missing] IN
         IF Len(missing) = 0 THEN StepSettings(checked, NoInput)
         ELSE ShowForm(checked, "helpers")

(* async_step_sensors                                                      *)
StepSensors(flow0, user_input, missing) ==
    LET flow == Called(flow0, "sensors", user_input) IN
    IF user_input # NoInput
    THEN StepHelpers([flow EXCEPT !.data = DictUpdate(@, user_input.data)],
                     NoInput, missing)
    ELSE ShowForm(flow, "sensors")

(* async_step_user; has_entries is _async_current_entries() being non-empty. *)
(* The profiles found by the discovery and the sensor mapping only fill    *)
(* the defaults of the forms.                                              *)
StepUser(flow0, user_input, has_entries) ==
    LET flow == Called(flow0, "user", user_input) IN
    IF has_entries THEN Abort(flow, "single_instance_allowed")
    ELSE IF platform = "raspberry_pi" THEN Abort(flow, "raspberry_pi_not_supported")
    ELSE IF platform = "proxmox" THEN Abort(flow, "proxmox_not_recommended")
    ELSE IF user_input # NoInput
    THEN LET selected_id == IF "inverter_profile" \in DOMAIN user_input.data
                            THEN user_input.data["inverter_profile"] ELSE "manual"
         IN StepSensors([flow EXCEPT
                            !.selected_profile = selected_id,
                            !.data = DictUpdate(@, "inverter_profile" :> selected_id)],
                        NoInput, <<>>)
    ELSE ShowForm(flow, "user")

(* The flow manager starts a flow of source "user": async_step_user(None). *)
FlowInit ==
    /\ Len(flows) < MaxFlows
    /\ flows' = Append(flows, StepUser(NewFlow, NoInput, configEntries # <<>>))
    /\ UNCHANGED <<optVars, configEntries, platform, webVars, entryData, entry, hassData,
                   dailyJob, collVars, dataVars>>

(* The step a submitted form is handed to: async_step_<cur_step>.          *)
StepOf(flow, user_input, missing) ==
    CASE flow.cur_step = "user" -> StepUser(flow, user_input, configEntries # <<>>)
      [] flow.cur_step = "sensors" -> StepSensors(flow, user_input, missing)
      [] flow.cur_step = "helpers" -> StepHelpers(flow, user_input, missing)
      [] flow.cur_step = "settings" -> StepSettings(flow, user_input)

(* The inputs the form of a step can submit.                               *)
FormInputs(step) ==
    CASE step = "user" -> {Input("inverter_profile" :> id) : id \in ProfileIds}
                              \cup {Input(NoData)}
      [] step = "sensors" -> {Input(d) : d \in SensorInputs}
      [] step = "helpers" -> {Input("show_yaml" :> "False")}
      [] step = "settings" -> {Input(d) : d \in SettingsInputs}
      [] OTHER -> {}

(* The user submits the form flow f shows.  A create_entry result makes    *)
(* the flow manager add an entry holding the flow's data.                  *)
FlowConfigure(f, user_input, missing) ==
    /\ f \in 1..Len(flows)
    /\ user_input \in FormInputs(flows[f].cur_step)
    /\ LET flow == StepOf(flows[f], user_input, missing) IN
         /\ flows' = [flows EXCEPT ![f] = flow]
         /\ configEntries' = IF flow.result = "create_entry"
                             THEN Append(configEntries, flow.data)
                             ELSE configEntries
    /\ UNCHANGED <<optVars, platform, webVars, entryData, entry, hassData, dailyJob,
                   collVars, dataVars>>

AllInputs == UNION {FormInputs(step) : step \in {"user", "sensors", "helpers", "settings"}}

InitFlow ==
    /\ entryData \in Configs
    /\ entry = "not_loaded"
    /\ hassData = NoEntries
    /\ dailyJob = FALSE
    /\ colls = <<>>
    /\ stopWait = {}
    /\ tasks = <<>>
    /\ now = 0
    /\ cycles = 0
    /\ jumps = 0
    /\ errLog = 0
    /\ historyFile = Absent
    /\ statsFile = Absent
    /\ accLog = <<>>
    /\ WebIdle
    /\ flows = <<>>
    /\ configEntries = <<>>
    /\ platform \in Platforms
    /\ sensorCall = NoCall
    /\ listener = "idle"

NextFlow ==
    \/ FlowInit
    \/ \E f \in 1..Len(flows), user_input \in AllInputs, missing \in HelperLists :
           FlowConfigure(f, user_input, missing)

SpecFlow == InitFlow /\ [][NextFlow]_vars

(***************************************************************************)
(* An options step ends in hass.config_entries.async_update_entry(entry,   *)
(* data=new_data): entry.data becomes new_data and the entry's update      *)
(* listener is scheduled.                                                  *)
(***************************************************************************)
ConfigUpdated == [ConfigFull EXCEPT !["CONF_SENSOR_SOLAR_POWER"] = "sensor.e2"]
OptionConfigs == {ConfigFull, ConfigUpdated}

UpdateEntry(new_data) ==
    /\ entry = "loaded"
    /\ listener # "pending"
    /\ new_data # entryData
    /\ entryData' = new_data
    /\ listener' = "pending"
    /\ UNCHANGED <<sensorCall, flowVars, webVars, entry, hassData, dailyJob, collVars,
                   dataVars>>

(* _async_update_listener.  update_config of the billing calculator and of *)
(* the aggregator (when it has one) is taken to store the dict it is given. *)
UpdateListener ==
    /\ listener = "pending"
    /\ IF EntryId \notin DOMAIN hassData
       THEN /\ listener' = "skipped"
            /\ UNCHANGED hassData
       ELSE /\ hassData' = [hassData EXCEPT ![EntryId].config = entryData,
                                            ![EntryId].billing_calculator.config = entryData,
                                            ![EntryId].aggregator.config = entryData]
            /\ listener' = "done"
    /\ UNCHANGED <<sensorCall, flowVars, webVars, entryData, entry, dailyJob, collVars,
                   dataVars>>

NextOptions ==
    \/ Next
    \/ \E new_data \in OptionConfigs : UpdateEntry(new_data)
    \/ UpdateListener

SpecOptions == Init /\ [][NextOptions]_vars

(***************************************************************************)
(* SFMLStatsOptionsFlow._process_sensor_input.  A dict is a function from  *)
(* its keys; a submitted value is None or Str(s), s one of the strings of  *)
(* Strings, whose strip() is StrStrip.                                     *)
(***************************************************************************)
Str(s) == [t |-> "str", v |-> s]
Strings == {"", " ", "sensor.e1", " sensor.e2 "}
StrStrip(s) ==
    CASE s = " " -> ""
      [] s = " sensor.e2 " -> "sensor.e2"
      [] OTHER -> s
SubmittedValues == {None} \cup {Str(s) : s \in Strings}

DictGet(d, key) == IF key \in DOMAIN d THEN d[key] ELSE None
DictPop(d, key) == [k \in DOMAIN d \ {key} |-> d[k]]
DictSet(d, key, value) == (key :> value) @@ d

(* The loop body with only a missing or None value taken as cleared.       *)
ProcessKeyNoneOnly(new_data, user_input, key) ==
    LET value == DictGet(user_input, key) IN
    IF value = None THEN DictPop(new_data, key) ELSE DictSet(new_data, key, value)

(* The loop body.                                                          *)
ProcessKey(new_data, user_input, key) ==
    LET value == DictGet(user_input, key) IN
    IF value = None \/ (value.t = "str" /\ StrStrip(value.v) = "")
    THEN DictPop(new_data, key)
    ELSE DictSet(new_data, key, value)

RECURSIVE ProcessKeysFrom(_, _, _, _)
ProcessKeysFrom(new_data, user_input, sensor_keys, i) ==
    IF i > Len(sensor_keys) THEN new_data
    ELSE ProcessKeysFrom(ProcessKey(new_data, user_input, sensor_keys[i]),
                         user_input, sensor_keys, i + 1)

ProcessSensorInput(data, user_input, sensor_keys) ==
    ProcessKeysFrom(data, user_input, sensor_keys, 1)

(* The calls of the model: entry data, submitted input, the step's keys.   *)
FormKeys == {"CONF_SENSOR_SOLAR_POWER", "CONF_SENSOR_GRID_TO_HOUSE"}
EntryDatas ==
    {("CONF_THEME" :> Str("dark")),
     ("CONF_THEME" :> Str("dark")) @@ ("CONF_SENSOR_SOLAR_POWER" :> Str("sensor.e1"))
         @@ ("CONF_SENSOR_BATTERY_SOC" :> Str("sensor.e2")),
     ("CONF_THEME" :> Str("")) @@ ("CONF_SENSOR_SOLAR_POWER" :> Str("sensor.e1"))
         @@ ("CONF_SENSOR_GRID_TO_HOUSE" :> Str("sensor.e2"))}
UserInputs ==
    UNION {[present -> SubmittedValues] :
              present \in SUBSET (FormKeys \cup {"CONF_THEME"}) \ {{"CONF_THEME"}}}
SensorKeyLists ==
    {<<"CONF_SENSOR_SOLAR_POWER", "CONF_SENSOR_GRID_TO_HOUSE">>,
     <<"CONF_SENSOR_GRID_TO_HOUSE">>}

InitSensorInput ==
    /\ entryData \in Configs
    /\ entry = "not_loaded"
    /\ hassData = NoEntries
    /\ dailyJob = FALSE
    /\ colls = <<>>
    /\ stopWait = {}
    /\ tasks = <<>>
    /\ now = 0
    /\ cycles = 0
    /\ jumps = 0
    /\ errLog = 0
    /\ historyFile = Absent
    /\ statsFile = Absent
    /\ accLog = <<>>
    /\ WebIdle
    /\ flows = <<>>
    /\ configEntries = <<>>
    /\ platform = "generic"
    /\ listener = "idle"
    /\ sensorCall \in [called : {FALSE}, data : EntryDatas, user_input : UserInputs,
                        sensor_keys : SensorKeyLists]

(* new_data = self._process_sensor_input(user_input, keys)                 *)
ProcessSensorInputCall ==
    /\ sensorCall # NoCall
    /\ ~sensorCall.called
    /\ sensorCall' =
          [called |-> TRUE, data |-> sensorCall.data,
           user_input |-> sensorCall.user_input, sensor_keys |-> sensorCall.sensor_keys,
           new_data |-> ProcessSensorInput(sensorCall.data, sensorCall.user_input,
                                           sensorCall.sensor_keys)]
    /\ UNCHANGED <<listener, flowVars, webVars, entryData, entry, hassData, dailyJob,
                   collVars, dataVars>>

SpecSensorInput == InitSensorInput /\ [][ProcessSensorInputCall]_vars

(***************************************************************************)
(* Properties of the collector.                                            *)
(***************************************************************************)

\* C1: under any interleaving of start() and stop() calls on one collector,
\* at most one _collection_loop task of the collector is live.
C1_AtMostOneLiveTask == \A c \in 1..Len(colls) : Cardinality(LiveTasksOf(c)) <= 1

(* The collectors whose async_unload_entry has returned: every collector   *)
(* but the newest, and the newest when the entry is not loaded.            *)
Unloaded(c) ==
    /\ c \in 1..Len(colls)
    /\ c < Len(colls) \/ entry = "not_loaded"

C2_State ==
    /\ \A c \in 1..Len(colls) :
          Unloaded(c) => ~colls[c].running /\ LiveTasksOf(c) = {}
    /\ entry = "not_loaded" => ~dailyJob /\ EntryId \notin DOMAIN hassData

C2_Step ==
    \A t \in TaskIds :
        Unloaded(tasks[t].owner) =>
            /\ tasks'[t] = tasks[t]
            /\ ~LoopStats(t)
            /\ ~(\E late \in BOOLEAN : LoopWake(t, late))
            /\ ~(\E states \in HassStates, io \in IoOutcomes : LoopCollect(t, states, io))

\* C2: once async_unload_entry has returned, the entry's collector has
\* _running = False and no live task, the daily timer is cancelled and the
\* entry id is gone from hass.data[DOMAIN]; no task of that collector takes
\* another step (no collection cycle, no file write) afterwards.
C2_UnloadStopsCollector == []C2_State /\ [][C2_Step]_vars

\* C2 witness: an unload has returned after cancelling a task that had
\* collected.
C2_Witness ==
    /\ entry = "not_loaded"
    /\ cycles > 0
    /\ \E t \in TaskIds : tasks[t].pc = "done" /\ tasks[t].cancel

NullOrNonNegative(x) == x = None \/ FLe(F(0), x)

\* C3: every persisted data point has solar_power, solar_to_house and
\* solar_to_battery null or >= 0, and no solar kWh total of a day is negative.
C3_SolarNullOrNonNegative ==
    /\ historyFile.exists =>
          \A i \in 1..Len(historyFile.data_points) :
              LET p == historyFile.data_points[i] IN
              /\ NullOrNonNegative(p.solar_power)
              /\ NullOrNonNegative(p.solar_to_house)
              /\ NullOrNonNegative(p.solar_to_battery)
    /\ statsFile.exists =>
          \A i \in 1..Len(statsFile.days) :
              LET d == statsFile.days[i] IN
              /\ ~FLt(d.solar_to_house_kwh, F(0))
              /\ ~FLt(d.solar_to_battery_kwh, F(0))
              /\ ~FLt(d.solar_total_kwh, F(0))

\* C4: in every persisted data point, solar_to_house and solar_to_battery do
\* not exceed solar_power when solar_power and the flow are both numbers.
C4_FlowsWithinSolarPower ==
    historyFile.exists =>
        \A i \in 1..Len(historyFile.data_points) :
            LET p == historyFile.data_points[i] IN
            /\ ~FGt(p.solar_to_house, p.solar_power)
            /\ ~FGt(p.solar_to_battery, p.solar_power)

(***************************************************************************)
(* The kWh total of a day record that a data point field feeds.            *)
(***************************************************************************)
TotalOf(day, f) ==
    CASE f = "solar_to_house" -> day.solar_to_house_kwh
      [] f = "solar_to_battery" -> day.solar_to_battery_kwh
      [] f = "battery_to_house" -> day.battery_to_house_kwh
      [] f = "grid_to_house" -> day.grid_to_house_kwh
      [] f = "home_consumption" -> day.consumption_kwh

(* The total of field f on date d in the stats file; 0 before d's entry.   *)
DayTotal(file, d, f) ==
    IF file.exists /\ DayIndex(file.days, d) # 0
    THEN TotalOf(file.days[DayIndex(file.days, d)], f)
    ELSE F(0)

(* The sum of v * COLLECTION_INTERVAL over the non-null samples v of field *)
(* f that the log holds for date d, in units of 1 / KwhDen kWh.            *)
RECURSIVE SumIncrements(_, _, _)
SumIncrements(log, d, f) ==
    IF log = <<>> THEN F(0)
    ELSE LET e == log[Len(log)]
             rest == SumIncrements(SubSeq(log, 1, Len(log) - 1), d, f)
         IN IF e.date = d /\ e.dp[f] # None
            THEN FAdd(rest, FMulInt(e.dp[f], COLLECTION_INTERVAL))
            ELSE rest

C5_TotalsAreSums ==
    statsFile.exists =>
        \A i \in 1..Len(statsFile.days), f \in EnergyFields :
            TotalOf(statsFile.days[i], f) = SumIncrements(accLog, statsFile.days[i].date, f)

C5_CycleAdds ==
    accLog' # accLog =>
        LET e == accLog'[Len(accLog')] IN
        \A f \in EnergyFields :
            DayTotal(statsFile', e.date, f) =
                IF e.dp[f] = None
                THEN DayTotal(statsFile, e.date, f)
                ELSE FAdd(DayTotal(statsFile, e.date, f), FMulInt(e.dp[f], COLLECTION_INTERVAL))

Accumulated(dp) == \E i \in 1..Len(accLog) : accLog[i].dp = dp

TaskAt(t, pcs) == t \in TaskIds /\ tasks[t].pc \in pcs

C6_Step ==
    /\ \A t \in TaskIds :
          /\ Live(t) /\ tasks'[t].pc = "done" =>
                tasks[t].cancel \/ ~colls[tasks[t].owner].running
          /\ tasks'[t].pc # tasks[t].pc =>
                \/ tasks'[t].pc = "done"
                \/ tasks[t].pc = "head" /\ tasks'[t].pc \in {"stats", "sleep"}
                       /\ cycles' = cycles + 1
                \/ tasks[t].pc = "stats" /\ tasks'[t].pc = "sleep"
                \/ tasks[t].pc = "sleep" /\ tasks'[t].pc = "head"
                       /\ now' >= tasks[t].wake
          /\ tasks'[t].pc = "sleep" /\ tasks[t].pc # "sleep" =>
                tasks'[t].wake = now + COLLECTION_INTERVAL
    /\ errLog' # errLog =>
          \E t \in TaskIds :
              /\ tasks[t].pc = "head"
              /\ tasks'[t].pc = "sleep"
              /\ tasks'[t].err
    /\ cycles' # cycles =>
          \E t \in TaskIds : tasks[t].pc = "head" /\ tasks'[t].pc \in {"stats", "sleep"}

\* C6: a collection task alternates one _collect_data attempt with a wait
\* of COLLECTION_INTERVAL seconds; an exception of the attempt is logged and
\* takes the task to the wait, not to its end; the task ends only when
\* stop() has cancelled it or cleared _running.  The loop never comes to
\* rest in an attempt or in a wait: a task goes on until stop() has ended
\* it or it is at the head of the loop with the model's cycle bound used up.
C6_LoopRepeats ==
    /\ [][C6_Step]_vars
    /\ <>[](\A t \in TaskIds :
              TaskAt(t, {"done"}) \/ (TaskAt(t, {"head"}) /\ cycles = MaxCycles))

\* C6 witness: a task whose attempt raised has made its next attempt.
C6_Witness ==
    /\ errLog = 1
    /\ cycles = 2
    /\ Len(tasks) = 1
    /\ tasks[1].pc \in {"stats", "sleep"}
    /\ ~tasks[1].err

(***************************************************************************)
(* Properties of the HTTP views.                                           *)
(***************************************************************************)

\* C7: no exception leaves a view handler: every request that reaches a
\* handler gets the handler's own (JSON) response.
C7_NoHandlerException == httpResp.kind # "exception"

\* C8: once every _save_panel_group_cache call begun has finished, the cache
\* file holds exactly the payload of the call that finished last.
C8_LastWriteWins ==
    (Len(writers) > 0 /\ \A w \in 1..Len(writers) : writers[w].pc = "done")
        => cacheFile = lastWrite

(***************************************************************************)
(* The address texts that are an address inside 10/8, 172.16/12,           *)
(* 192.168/16, 127/8, 169.254/16, fc00::/7, fe80::/10 or ::1, by the       *)
(* ranges these networks cover.                                            *)
(***************************************************************************)
InsideLocalNetworks(text) ==
    LET g == text.groups IN
    /\ ~text.pad
    /\ text.word = ""
    /\ \/ /\ text.sep = "."
          /\ Len(g) = 4
          /\ \A i \in 1..4 : g[i] \in 0..255
          /\ \/ g[1] = 10
             \/ g[1] = 172 /\ g[2] \in 16..31
             \/ g[1] = 192 /\ g[2] = 168
             \/ g[1] = 127
             \/ g[1] = 169 /\ g[2] = 254
       \/ /\ text.sep = ":"
          /\ Len(g) = 8
          /\ \A i \in 1..8 : g[i] \in 0..65535
          /\ \/ g[1] \in 64512..65023
             \/ g[1] \in 65152..65215
             \/ g = <<0, 0, 0, 0, 0, 0, 0, 1>>

(* The views of the model whose handler carries @local_only.               *)
WrappedByLocalOnly ==
    {"solar", "prices", "power_sources_history", "energy_flow", "health",
     "energy_sources_daily_stats"}

\* C9: a handler behind local_only is invoked only when the client IP
\* derived for the request is the text of an address inside one of
\* LOCAL_NETWORKS; for every other derived text, an unparsable one
\* included, no handler is invoked and the response is the 403 page.
C9_HandlerOnlyForLocalClient ==
    (httpResp # NoResponse /\ httpReq.view \in WrappedByLocalOnly) =>
        /\ httpResp.invoked # "none" => InsideLocalNetworks(GetClientIp(httpReq))
        /\ ~InsideLocalNetworks(GetClientIp(httpReq)) =>
              httpResp.invoked = "none" /\ httpResp.status = 403

\* C9 witness: a handler has been invoked for a request whose client IP is
\* the first, padded X-Forwarded-For entry, a local address.
C9_Witness ==
    /\ httpResp # NoResponse
    /\ httpResp.invoked = "solar"
    /\ httpReq.cf = NoHeader
    /\ httpReq.xff = Xff(<<Padded(Text4(<<192, 168, 1, 1>>)), Text4(<<8, 8, 8, 8>>)>>)
    /\ httpReq.peer = Text4(<<192, 168, 1, 1>>)

\* C10: a request whose transport peer is an address outside LOCAL_NETWORKS
\* gets the 403 response, whatever its headers are.
C10_NonLocalPeerDenied ==
    (httpResp # NoResponse /\ httpReq.peer # NoPeer /\ ~InsideLocalNetworks(httpReq.peer))
        => httpResp.status = 403

\* C11: every HTTP method of every registered view, DELETE on the
\* monthly-tariff finalize endpoint and GET on the background image included,
\* answers a request whose client IP is not inside LOCAL_NETWORKS with 403
\* and does not run its handler body.
C11_EveryViewLocalOnly ==
    (httpResp # NoResponse /\ ~InsideLocalNetworks(GetClientIp(httpReq)))
        => httpResp.status = 403 /\ httpResp.invoked = "none"

(* The six checks of a health answer.                                      *)
CheckNames ==
    {"solar_data_available", "grid_data_available", "integration_loaded",
     "config_entries_present", "solar_stats_available", "grid_prices_available"}
CriticalChecks == {"integration_loaded", "config_entries_present"}

\* C12: HealthCheckView.get answers 'healthy' with 200 iff all six checks are
\* true, 'degraded' with 200 iff both critical checks are true and some other
\* check is false, 'unhealthy' with 503 iff a critical check is false; with
\* APIContext never initialised the answer is 'unhealthy' with 503.
C12_HealthClassification ==
    (httpResp # NoResponse /\ httpResp.invoked = "health") =>
        LET body == httpResp.body
            status == <<body.status, httpResp.status>>
        IN IF apiContext = None
           THEN status = <<"unhealthy", 503>>
           ELSE LET checks == body.checks
                    critical == \A k \in CriticalChecks : checks[k]
                    other == \A k \in CheckNames \ CriticalChecks : checks[k]
                IN /\ DOMAIN checks = CheckNames
                   /\ status = <<"healthy", 200>> <=> (critical /\ other)
                   /\ status = <<"degraded", 200>> <=> (critical /\ ~other)
                   /\ status = <<"unhealthy", 503>> <=> ~critical
                   /\ status \in {<<"healthy", 200>>, <<"degraded", 200>>,
                                  <<"unhealthy", 503>>}

\* C12 witness: a health answer 'degraded' (both critical checks true, the
\* price cache missing) has been given with APIContext initialised.
C12_Witness ==
    /\ httpResp # NoResponse
    /\ httpResp.invoked = "health"
    /\ apiContext # None
    /\ httpResp.body.status = "degraded"
    /\ httpResp.body.checks.integration_loaded
    /\ httpResp.body.checks.grid_data_available
    /\ ~httpResp.body.checks.grid_prices_available

(* The calls of a flow up to call k hold an accepted user step and, after  *)
(* it, an accepted sensors step.                                           *)
UserThenSensorsBefore(calls, k) ==
    \E i \in 1..k, j \in 1..k :
        /\ i < j
        /\ calls[i] = [step |-> "user", input |-> TRUE]
        /\ calls[j] = [step |-> "sensors", input |-> TRUE]

IsPrefix(a, b) == Len(a) <= Len(b) /\ a = SubSeq(b, 1, Len(a))

C13_State ==
    \A f \in 1..Len(flows) :
        LET flow == flows[f] IN
        /\ flow.result = "create_entry" =>
              flow.calls[Len(flow.calls)] = [step |-> "settings", input |-> TRUE]
        /\ \A k \in 1..Len(flow.calls) :
              flow.calls[k].step = "settings" => UserThenSensorsBefore(flow.calls, k)
        /\ IF Len(flow.missing_helpers) > 0
           THEN IsPrefix(flow.forms, <<"user", "sensors", "helpers", "settings">>)
           ELSE IsPrefix(flow.forms, <<"user", "sensors", "settings">>)

C13_Step ==
    configEntries' # configEntries =>
        \E f \in 1..Len(flows) :
            /\ flows[f].cur_step = "settings"
            /\ flows'[f].result = "create_entry"
            /\ configEntries' = Append(configEntries, flows'[f].data)

\* C13: a config entry is created only by async_step_settings receiving user
\* input; async_step_settings is called only after async_step_user accepted
\* an input and, later, async_step_sensors accepted an input; the helpers
\* form is shown between the sensors and the settings form exactly when
\* check_and_suggest_helpers reported missing helpers.
C13_StepOrder == []C13_State /\ [][C13_Step]_vars

\* C13 witness: a flow has created its entry after showing the user, sensors,
\* helpers and settings forms.
C13_Witness ==
    \E f \in 1..Len(flows) :
        /\ flows[f].result = "create_entry"
        /\ flows[f].forms = <<"user", "sensors", "helpers", "settings">>

\* C14: after any sequence or interleaving of config flows at most one
\* config entry of the domain exists.
C14_AtMostOneEntry == Len(configEntries) <= 1

(* The submitted strings that are blank: empty or whitespace only.         *)
BlankStrings == {"", " "}
Cleared(user_input, key) ==
    \/ key \notin DOMAIN user_input
    \/ user_input[key] = None
    \/ user_input[key].t = "str" /\ user_input[key].v \in BlankStrings

\* C15: _process_sensor_input returns the entry data with each key of
\* sensor_keys removed when its submitted value is missing, None or a blank
\* string and otherwise set to the submitted value; every key outside
\* sensor_keys is present exactly when it was and keeps its value.
C15_SensorInputFrame ==
    (sensorCall # NoCall /\ sensorCall.called) =>
        LET call == sensorCall
            keys == {call.sensor_keys[i] : i \in 1..Len(call.sensor_keys)}
            all == DOMAIN call.data \cup DOMAIN call.user_input \cup DOMAIN call.new_data
        IN \A k \in all :
              IF k \in keys
              THEN IF Cleared(call.user_input, k)
                   THEN k \notin DOMAIN call.new_data
                   ELSE k \in DOMAIN call.new_data
                        /\ call.new_data[k] = call.user_input[k]
              ELSE /\ k \in DOMAIN call.new_data <=> k \in DOMAIN call.data
                   /\ k \in DOMAIN call.data => call.new_data[k] = call.data[k]

\* C15 witness: a call has cleared a key it held (blank input), set another
\* and kept a key outside sensor_keys although the input carried it.
C15_Witness ==
    /\ sensorCall # NoCall
    /\ sensorCall.called
    /\ Len(sensorCall.sensor_keys) = 2
    /\ "CONF_SENSOR_SOLAR_POWER" \in DOMAIN sensorCall.data
    /\ DictGet(sensorCall.user_input, "CONF_SENSOR_SOLAR_POWER") = Str(" ")
    /\ DictGet(sensorCall.user_input, "CONF_SENSOR_GRID_TO_HOUSE") = Str(" sensor.e2 ")
    /\ DictGet(sensorCall.user_input, "CONF_THEME") = Str("sensor.e1")
    /\ "CONF_SENSOR_SOLAR_POWER" \notin DOMAIN sensorCall.new_data
    /\ DictGet(sensorCall.new_data, "CONF_THEME") = Str("dark")

\* C16: when _async_update_listener completes for a loaded entry, every copy
\* of the configuration held for the entry (hass.data[DOMAIN][entry_id]
\* ['config'], the billing calculator's, the aggregator's and the power
\* sources collector's) equals the new entry.data.
C16_AllCopiesRefreshed ==
    [][(listener = "pending" /\ listener' = "done") =>
          LET e == hassData'[EntryId] IN
          /\ e.config = entryData'
          /\ e.billing_calculator.config = entryData'
          /\ e.aggregator.config = entryData'
          /\ colls'[e.power_sources_collector].config = entryData']_vars

(* A flow that is not null is <= solar_power, and is 0 when solar_power    *)
(* is <= 0.                                                                *)
FlowWithin(flow, solar_power) ==
    flow # None =>
        /\ FLe(flow, solar_power)
        /\ FLe(solar_power, F(0)) => flow = F(0)

\* C17: in the flows of EnergyFlowView and the current_values of
\* EnergySourcesDailyStatsView, whenever solar_power is not null,
\* solar_to_house and solar_to_battery, when not null, are <= solar_power,
\* and are 0 when solar_power <= 0.
C17_ViewFlowsWithinSolarPower ==
    /\ (httpResp # NoResponse /\ httpResp.invoked = "energy_flow") =>
          LET flows_ == httpResp.body IN
          flows_.solar_power # None =>
              /\ FlowWithin(flows_.solar_to_house, flows_.solar_power)
              /\ FlowWithin(flows_.solar_to_battery, flows_.solar_power)
    /\ (httpResp # NoResponse /\ httpResp.invoked = "energy_sources_daily_stats"
            /\ httpResp.status = 200) =>
          LET current_values == httpResp.body.current_values
              solar_power ==
                  ClampSolar(GetSensorValue(GetConfig, readStates, "CONF_SENSOR_SOLAR_POWER"))
          IN solar_power # None =>
                /\ FlowWithin(current_values.solar_to_house, solar_power)
                /\ FlowWithin(current_values.solar_to_battery, solar_power)

(* The history file holds the point dp sampled at time t, only points      *)
(* later than t - 7 days, their number as points_count and t as            *)
(* last_updated.                                                           *)
Retained(file, dp, t) ==
    /\ file.exists
    /\ \E i \in 1..Len(file.data_points) : file.data_points[i] = dp
    /\ \A i \in 1..Len(file.data_points) :
          file.data_points[i].timestamp > t - 7 * 24 * 60 * 60
    /\ file.points_count = Len(file.data_points)
    /\ file.last_updated = t

(* A task between its save of the history and the end of _collect_data.    *)
C18_State ==
    \A t \in TaskIds :
        tasks[t].pc = "stats" => Retained(historyFile, tasks[t].dp, now) /\ tasks[t].dp.timestamp = now

(* _collect_data completes: the task goes from its daily stats to sleep.   *)
C18_Step ==
    \A t \in TaskIds :
        (tasks[t].pc = "stats" /\ tasks'[t].pc = "sleep") =>
            Retained(historyFile', tasks[t].dp, now')

====
